---- MODULE Spec2Model ----
(***************************************************************************)
(* Model of the ffplayout player loop (engine/src/player/output/mod.rs):    *)
(* one player task that spawns the encoder, walks the source iterator,      *)
(* spawns one decoder per node and pumps bytes from the decoder's stdout    *)
(* (or from the live ingest's stdout) into the encoder's stdin.             *)
(* The channel manager, the ingest supervisor, the source iterator and the  *)
(* stderr drains run concurrently with the player and are modelled as       *)
(* separate actions.                                                        *)
(***************************************************************************)
EXTENDS Integers, Sequences, FiniteSets, TLC

(* ---------------------------- bounds ----------------------------------- *)
\* number of nodes the source iterator yields before it returns None
MaxNodes == 2
\* number of bytes all decoders of a run emit together
MaxDecBytes == 2
\* number of bytes all live sessions of a run deliver together
MaxIngBytes == 1
\* capacity of the copy buffer (64 * 1024 in the program), scaled down
ReadCap == 2
\* capacity of the buffered writer around encoder stdin (8 KiB in tokio), scaled down
WriterCap == 2
\* number of tokens of the longest node command
MaxCmdLen == 4
MaxReqs == 2
NumWorkers == 2
MaxChannels == 2

(* ---------------------------- values ----------------------------------- *)
Modes == {"Desktop", "HLS", "Null", "Stream"}

NoNode == [cmd |-> FALSE, skip |-> FALSE, index |-> 0]

\* a byte is <<producer, serial number>>; the copy buffer starts zeroed (vec![0u8; ..])
ZeroByte == <<"zero", 0>>

Min(a, b) == IF a < b THEN a ELSE b

\* bytes lo..hi of one producer, as a sequence
Run(tag, lo, hi) == [i \in 1..(hi - lo + 1) |-> <<tag, lo + i - 1>>]

VARIABLES
    pc,               \* position of the player task
    result,           \* "none" | "Ok" | "Err" | "panic"
    live_on,          \* local: bytes are being sourced from ingest
    buffer,           \* local: the copy buffer, ReadCap bytes
    num,              \* local: length of the last read
    ingest_srv,       \* local: TRUE when the ingest supervisor task was spawned
    current_media,    \* manager.current_media
    list_init,        \* manager.list_init
    is_alive,         \* manager.is_alive
    ingest_is_alive,  \* manager.ingest_is_alive
    ingest_stdout,    \* manager.ingest_stdout: "none" | "open"
    ingLock,          \* holder of the ingest_stdout mutex: "free" | "player" | "ingest"
    decoder,          \* manager.decoder: 0 for None, else the id of the child
    wbuf,             \* bytes held inside the buffered writer
    encIn,            \* bytes that reached the encoder's stdin pipe
    encState,         \* encoder child: "none" | "running" | "exited"
    encSignalled,     \* the encoder was signalled to stop
    encSpawns,        \* number of encoder children spawned
    encErrTask,       \* encoder stderr drain: "none" | "running" | "ok" | "err" (its result)
    nDec,             \* number of decoder children spawned (ids 1..nDec)
    decAlive,         \* ids of the decoder children that have not exited
    decSignalled,     \* ids of the decoder children signalled to stop
    decOut,           \* bytes the current decoder still delivers on stdout
    decStdout,        \* the player's handle to decoder stdout: "none" | "open" | "dropped"
    decErrTask,       \* decoder stderr drain: "none" | "running" | "ok" | "err" (its result)
    decBytes,         \* serial number of the last byte a decoder emitted
    ingState,         \* ingest supervisor: "off" | "listening" | "live" | "ended" | "exited" | "failed"
    ingChild,         \* the ingest child process is alive
    ingOut,           \* bytes the ingest stream still delivers
    ingSessions,      \* number of live sessions started
    ingBytes,         \* serial number of the last byte the ingest emitted
    nodeIdx,          \* number of nodes the source iterator has yielded
    stopObserved,     \* history: the loop saw is_alive cleared at line 85
    ingEof,           \* history: <<decoder id, session>> of the pump's last ingest EOF
    readsAfterStop,   \* history: decoder reads that returned bytes after is_alive was cleared (capped at 2)
    nSkipped,         \* history: number of skip nodes the loop has passed (line 101)
    decNode,          \* history: index of the node the most recent decoder was spawned for
    argPc,            \* position inside the construction of the decoder arguments (lines 134-159)
    dec_cmd,          \* local: the decoder argument list under construction
    ffmpeg_level,     \* config.logging.ffmpeg_level
    input_cmd,        \* config.advanced.decoder.input_cmd (an Option)
    node_cmd,         \* node.cmd, unwrapped at line 92
    node_filter,      \* node.filter (an Option): its cmd() and map() lists
    vtt_enable,       \* config.processing.vtt_enable
    processing_cmd,   \* config.processing.cmd (an Option)
    sseHandler,       \* per request: the handler serving it, "none" before it arrives
    sseWorker,        \* per request: the server worker thread that polls its future
    sseAt,            \* per request: the position of its future inside the handler
    uuidsGuard,       \* holder of the data.uuids mutex: 0 when free, else the request
    cliPc,            \* position inside run_args
    args,             \* the parsed command line (flags and presence of the options)
    error_code,       \* local of run_args: -1, 0 or 1
    chanIdx,          \* position of the for loop over ARGS.channels
    anyPerformed,     \* history: an action of run_args was performed
    anyFailed,        \* history: an action of run_args failed
    cliResult         \* what run_args returned: "none" | "Ok" | "Err0" | "Err1" | "panic"

vars == << pc, result, live_on, buffer, num, ingest_srv, current_media,
           list_init, is_alive, ingest_is_alive, ingest_stdout, ingLock, decoder,
           wbuf, encIn, encState, encSignalled, encSpawns, encErrTask,
           nDec, decAlive, decSignalled, decOut, decStdout, decErrTask, decBytes,
           ingState, ingChild, ingOut, ingSessions, ingBytes, nodeIdx,
           stopObserved, ingEof, readsAfterStop, nSkipped, decNode,
           argPc, dec_cmd, ffmpeg_level, input_cmd, node_cmd, node_filter,
           vtt_enable, processing_cmd,
           sseHandler, sseWorker, sseAt, uuidsGuard,
           cliPc, args, error_code, chanIdx, anyPerformed, anyFailed, cliResult >>

playerLocals == << live_on, buffer, num, ingest_srv >>
flagVars     == << list_init, is_alive, ingest_is_alive >>
encVars      == << wbuf, encIn, encState, encSignalled, encSpawns, encErrTask >>
decVars      == << decoder, nDec, decAlive, decSignalled, decOut, decStdout, decErrTask, decBytes >>
ingVars      == << ingest_stdout, ingLock, ingState, ingChild, ingOut, ingSessions, ingBytes >>
histVars     == << stopObserved, ingEof, readsAfterStop, nSkipped, decNode >>
argInputs    == << ffmpeg_level, input_cmd, node_cmd, node_filter, vtt_enable, processing_cmd >>
argVars      == << argPc, dec_cmd, argInputs >>
sseVars      == << sseHandler, sseWorker, sseAt, uuidsGuard >>
cliVars      == << cliPc, args, error_code, chanIdx, anyPerformed, anyFailed, cliResult >>
playerVars   == << pc, result, playerLocals, current_media, flagVars, encVars, decVars,
                   ingVars, nodeIdx, histVars >>

(* ------------------------ buffered writer ------------------------------ *)
\* tokio's BufWriter under write_all: the outcomes of writing data while buf
\* is held. A write that does not fit flushes buf first; a write of at least
\* the capacity goes to the pipe directly (the pipe may take any non-empty
\* prefix, write_all retries the rest); anything else is only copied into buf.
\* open says whether the read end of the pipe still exists.
RECURSIVE WriteAll(_, _, _)
WriteAll(buf, data, open) ==
    IF data = <<>> THEN {[ok |-> TRUE, buf |-> buf, out |-> <<>>]}
    ELSE IF Len(buf) + Len(data) > WriterCap /\ buf # <<>>
    THEN IF ~open THEN {[ok |-> FALSE, buf |-> buf, out |-> <<>>]}
         ELSE {[ok |-> o.ok, buf |-> o.buf, out |-> buf \o o.out] :
                  o \in WriteAll(<<>>, data, open)}
    ELSE IF Len(data) >= WriterCap
    THEN IF ~open THEN {[ok |-> FALSE, buf |-> buf, out |-> <<>>]}
         ELSE UNION {{[ok |-> o.ok, buf |-> o.buf, out |-> SubSeq(data, 1, k) \o o.out] :
                        o \in WriteAll(buf, SubSeq(data, k + 1, Len(data)), open)} :
                     k \in 1..Len(data)}
    ELSE {[ok |-> TRUE, buf |-> buf \o data, out |-> <<>>]}

\* read of n bytes of stream into the copy buffer: buffer[..n] is overwritten
ReadInto(buf, stream, n) ==
    [i \in 1..ReadCap |-> IF i <= n THEN stream[i] ELSE buf[i]]

\* the whole buffer handed to write_all instead of the slice of the last read
WriteSliceWhole(buf, n) == buf

\* the slice &buffer[..num] handed to write_all
WriteSlice(buf, n) == SubSeq(buf, 1, n)

(* ------------------------------ Init ----------------------------------- *)
PlayerInit ==
    /\ pc = "start"
    /\ result = "none"
    /\ live_on = FALSE
    /\ buffer = [i \in 1..ReadCap |-> ZeroByte]
    /\ num = 0
    /\ ingest_srv = FALSE
    /\ current_media = NoNode
    /\ list_init = TRUE
    /\ is_alive = TRUE
    /\ ingest_is_alive = FALSE
    /\ ingest_stdout = "none"
    /\ ingLock = "free"
    /\ decoder = 0
    /\ wbuf = <<>>
    /\ encIn = <<>>
    /\ encState = "none"
    /\ encSignalled = FALSE
    /\ encSpawns = 0
    /\ encErrTask = "none"
    /\ nDec = 0
    /\ decAlive = {}
    /\ decSignalled = {}
    /\ decOut = <<>>
    /\ decStdout = "none"
    /\ decErrTask = "none"
    /\ decBytes = 0
    /\ ingState = "off"
    /\ ingChild = FALSE
    /\ ingOut = <<>>
    /\ ingSessions = 0
    /\ ingBytes = 0
    /\ nodeIdx = 0
    /\ stopObserved = FALSE
    /\ ingEof = <<0, 0>>
    /\ readsAfterStop = 0
    /\ nSkipped = 0
    /\ decNode = 0

\* an Option: None, or Some(v)
None == [some |-> FALSE, val |-> <<>>]
Some(v) == [some |-> TRUE, val |-> v]

\* no request has reached the SSE routes
SseIdle ==
    /\ sseHandler = [r \in 1..MaxReqs |-> "none"]
    /\ sseWorker = [r \in 1..MaxReqs |-> 0]
    /\ sseAt = [r \in 1..MaxReqs |-> "none"]
    /\ uuidsGuard = 0

\* the command line carries nothing for run_args to do, and run_args is not followed
NoArgs == [init |-> FALSE, add |-> FALSE, username |-> FALSE, mail |-> FALSE,
           password |-> FALSE, list_channels |-> FALSE, drop_db |-> FALSE,
           dump_advanced |-> FALSE, dump_config |-> FALSE,
           import_advanced |-> FALSE, import_config |-> FALSE, channels |-> None]

CliIdle ==
    /\ cliPc = "off"
    /\ args = NoArgs
    /\ error_code = -1
    /\ chanIdx = 0
    /\ anyPerformed = FALSE
    /\ anyFailed = FALSE
    /\ cliResult = "none"

\* the decoder arguments are left out
ArgsIdle ==
    /\ argPc = "off"
    /\ dec_cmd = <<>>
    /\ ffmpeg_level = "ERROR"
    /\ input_cmd = None
    /\ node_cmd = <<>>
    /\ node_filter = None
    /\ vtt_enable = FALSE
    /\ processing_cmd = None

\* the player loop is followed on its own
Init ==
    /\ PlayerInit
    /\ ArgsIdle
    /\ SseIdle
    /\ CliIdle

(* ------------------------ channel manager ------------------------------ *)
\* manager.stop(Decoder): the child in manager.decoder is signalled to stop;
\* idempotent, returns once the signal is delivered
ManagerStopDecoder ==
    decSignalled' = decSignalled \cup {decoder}

\* manager.wait(Decoder) can return: the child in manager.decoder has exited
ManagerWaitDecoder ==
    decoder \notin decAlive

\* manager.stop_all(false): ingest, decoder and encoder are signalled in this
\* order and the encoder is awaited
ManagerStopAll ==
    /\ ingChild' = FALSE
    /\ decSignalled' = IF decoder # 0 THEN decSignalled \cup {decoder} ELSE decSignalled
    /\ encSignalled' = TRUE
    /\ encState' = "exited"

(* ------------------------- player task --------------------------------- *)
\* a `?` that returns an error from player(): the locals are dropped, which
\* closes the decoder stdout handle and releases a held ingest_stdout guard;
\* bytes still inside the buffered writer are dropped with it
ReturnErr ==
    /\ pc' = "done"
    /\ result' = "Err"
    /\ decStdout' = IF decStdout = "open" THEN "dropped" ELSE decStdout
    /\ ingLock' = IF ingLock = "player" THEN "free" ELSE ingLock

\* the config snapshots the player can start from: output mode and ingest.enable
Configs == [mode : Modes, ingest_enable : BOOLEAN]

\* lines 56-79 under one config snapshot: the match on config.output.mode
\* (Desktop, Null and Stream spawn their encoder with `?`, any other mode
\* panics), stdin and stderr taken, handle published, stderr drain spawned,
\* ingest supervisor spawned when ingest.enable
SpawnEncoder(config) ==
    /\ \/ /\ config.mode \notin {"Desktop", "Null", "Stream"}
          /\ pc' = "done"
          /\ result' = "panic"
          /\ UNCHANGED << ingest_srv, encState, encSpawns, encErrTask, ingState, ingChild,
                          decStdout, ingLock >>
       \/ /\ config.mode \in {"Desktop", "Null", "Stream"}
          /\ ReturnErr
          /\ UNCHANGED << ingest_srv, encState, encSpawns, encErrTask, ingState, ingChild >>
       \/ /\ config.mode \in {"Desktop", "Null", "Stream"}
          /\ encState' = "running"
          /\ encSpawns' = encSpawns + 1
          /\ encErrTask' = "running"
          /\ ingest_srv' = config.ingest_enable
          /\ ingState' = IF config.ingest_enable THEN "listening" ELSE "off"
          /\ ingChild' = config.ingest_enable
          /\ pc' = "next"
          /\ UNCHANGED << result, decStdout, ingLock >>
    /\ UNCHANGED << live_on, buffer, num, current_media, flagVars, ingest_stdout,
                    decoder, wbuf, encIn, encSignalled, nDec, decAlive, decSignalled,
                    decOut, decErrTask, decBytes, ingOut, ingSessions, ingBytes,
                    nodeIdx, histVars >>
    /\ UNCHANGED << argVars, sseVars, cliVars >>

\* lines 41-79: config snapshot, source iterator, encoder spawn, stderr drain,
\* ingest supervisor. The snapshot is read here and nowhere later, so it is an
\* input of this step; ingest_srv keeps what the rest of the run depends on.
Startup ==
    /\ pc = "start"
    /\ \E config \in Configs : SpawnEncoder(config)

\* the node taken from the iterator without its publication at line 82
NextNodeNoPublish ==
    /\ pc = "next"
    /\ \/ /\ nodeIdx < MaxNodes
          /\ nodeIdx' = nodeIdx + 1
          /\ list_init' = FALSE
          /\ pc' = "check_alive"
          /\ UNCHANGED current_media
       \/ /\ pc' = "sleep"
          /\ UNCHANGED << current_media, nodeIdx, list_init >>
    /\ UNCHANGED << result, playerLocals, is_alive, ingest_is_alive, encVars,
                    decVars, ingVars, histVars >>
    /\ UNCHANGED << argVars, sseVars, cliVars >>

\* lines 81-82: node_sources.next() and the publication of the node
NextNode ==
    /\ pc = "next"
    /\ \/ /\ nodeIdx < MaxNodes
          /\ \E c \in BOOLEAN, s \in BOOLEAN :
                current_media' = [cmd |-> c, skip |-> s, index |-> nodeIdx + 1]
          /\ nodeIdx' = nodeIdx + 1
          /\ list_init' = FALSE
          /\ pc' = "check_alive"
       \/ /\ pc' = "sleep"
          /\ UNCHANGED << current_media, nodeIdx, list_init >>
    /\ UNCHANGED << result, playerLocals, is_alive, ingest_is_alive, encVars,
                    decVars, ingVars, histVars >>
    /\ UNCHANGED << argVars, sseVars, cliVars >>

\* the is_alive check without its break: the loop body goes on after the check
CheckAliveNoBreak ==
    /\ pc = "check_alive"
    /\ stopObserved' = (stopObserved \/ ~is_alive)
    /\ pc' = IF ~current_media.cmd THEN "sleep"
             ELSE IF current_media.skip THEN "next"
             ELSE "spawn"
    /\ nSkipped' = IF current_media.cmd /\ current_media.skip THEN nSkipped + 1 ELSE nSkipped
    /\ UNCHANGED << result, playerLocals, current_media, flagVars, encVars,
                    decVars, ingVars, nodeIdx, ingEof, readsAfterStop, decNode >>
    /\ UNCHANGED << argVars, sseVars, cliVars >>

\* the skip flag looked at before the command: a skip node goes on to the
\* next node even when its command is absent
CheckAliveSkipFirst ==
    /\ pc = "check_alive"
    /\ IF ~is_alive
       THEN pc' = "sleep" /\ stopObserved' = TRUE /\ UNCHANGED nSkipped
       ELSE /\ pc' = IF current_media.skip THEN "next"
                     ELSE IF ~current_media.cmd THEN "sleep"
                     ELSE "spawn"
            /\ nSkipped' = IF current_media.skip THEN nSkipped + 1 ELSE nSkipped
            /\ UNCHANGED stopObserved
    /\ UNCHANGED << result, playerLocals, current_media, flagVars, encVars,
                    decVars, ingVars, nodeIdx, ingEof, readsAfterStop, decNode >>
    /\ UNCHANGED << argVars, sseVars, cliVars >>

\* lines 85-102: the is_alive check, the absent command, the skip flag
CheckAlive ==
    /\ pc = "check_alive"
    /\ IF ~is_alive
       THEN pc' = "sleep" /\ stopObserved' = TRUE /\ UNCHANGED nSkipped
       ELSE /\ pc' = IF ~current_media.cmd THEN "sleep"
                     ELSE IF current_media.skip THEN "next"
                     ELSE "spawn"
            /\ nSkipped' = IF current_media.cmd /\ current_media.skip
                            THEN nSkipped + 1 ELSE nSkipped
            /\ UNCHANGED stopObserved
    /\ UNCHANGED << result, playerLocals, current_media, flagVars, encVars,
                    decVars, ingVars, nodeIdx, ingEof, readsAfterStop, decNode >>
    /\ UNCHANGED << argVars, sseVars, cliVars >>

\* lines 167-180: decoder spawn, stdout taken, handle published, stderr drain
SpawnDecoder ==
    /\ pc = "spawn"
    /\ \/ /\ ReturnErr
          /\ UNCHANGED << decoder, nDec, decAlive, decOut, decErrTask, decBytes, decNode >>
       \/ /\ \E len \in 0..(MaxDecBytes - decBytes) :
                /\ decOut' = Run("dec", decBytes + 1, decBytes + len)
                /\ decBytes' = decBytes + len
          /\ nDec' = nDec + 1
          /\ decoder' = nDec + 1
          /\ decAlive' = decAlive \cup {nDec + 1}
          /\ decStdout' = "open"
          /\ decErrTask' = "running"
          /\ decNode' = current_media.index
          /\ pc' = "pump"
          /\ UNCHANGED << result, ingLock >>
    /\ UNCHANGED << playerLocals, current_media, flagVars, encVars, decSignalled,
                    ingest_stdout, ingState, ingChild, ingOut, ingSessions, ingBytes,
                    nodeIdx, stopObserved, ingEof, readsAfterStop, nSkipped >>
    /\ UNCHANGED << argVars, sseVars, cliVars >>

\* the switch to live without manager.stop(Decoder)
PumpSwitchToLiveNoStop ==
    /\ pc = "pump"
    /\ ingest_is_alive
    /\ ~live_on
    /\ live_on' = TRUE
    /\ list_init' = TRUE
    /\ pc' = "ing_lock"
    /\ UNCHANGED << result, buffer, num, ingest_srv, current_media, is_alive,
                    ingest_is_alive, encVars, decVars, ingVars, nodeIdx, histVars >>
    /\ UNCHANGED << argVars, sseVars, cliVars >>

\* lines 183-191: ingest is live and the pump was on the decoder
PumpSwitchToLive ==
    /\ pc = "pump"
    /\ ingest_is_alive
    /\ ~live_on
    /\ \/ /\ ManagerStopDecoder
          /\ live_on' = TRUE
          /\ list_init' = TRUE
          /\ pc' = "ing_lock"
          /\ UNCHANGED << result, decStdout, ingLock >>
       \/ /\ ReturnErr
          /\ UNCHANGED << decSignalled, live_on, list_init >>
    /\ UNCHANGED << buffer, num, ingest_srv, current_media, is_alive,
                    ingest_is_alive, encVars, decoder, nDec, decAlive, decOut,
                    decErrTask, decBytes, ingest_stdout, ingState, ingChild, ingOut,
                    ingSessions, ingBytes, nodeIdx, histVars >>
    /\ UNCHANGED << argVars, sseVars, cliVars >>

\* line 183 with live_on already set
PumpLive ==
    /\ pc = "pump"
    /\ ingest_is_alive
    /\ live_on
    /\ pc' = "ing_lock"
    /\ UNCHANGED << result, playerLocals, current_media, flagVars, encVars,
                    decVars, ingVars, nodeIdx, histVars >>
    /\ UNCHANGED << argVars, sseVars, cliVars >>

\* lines 205-210: ingest is no longer live
PumpSwitchBack ==
    /\ pc = "pump"
    /\ ~ingest_is_alive
    /\ live_on
    /\ live_on' = FALSE
    /\ pc' = "drop"
    /\ UNCHANGED << result, buffer, num, ingest_srv, current_media, flagVars,
                    encVars, decVars, ingVars, nodeIdx, histVars >>
    /\ UNCHANGED << argVars, sseVars, cliVars >>

\* line 203 into 212: the pump turns to the decoder
PumpPlay ==
    /\ pc = "pump"
    /\ ~ingest_is_alive
    /\ ~live_on
    /\ pc' = "dec_read"
    /\ UNCHANGED << result, playerLocals, current_media, flagVars, encVars,
                    decVars, ingVars, nodeIdx, histVars >>
    /\ UNCHANGED << argVars, sseVars, cliVars >>

\* the guard taken and dropped without a look at the stream: the iteration
\* ends without a read
IngLockNoRead ==
    /\ pc = "ing_lock"
    /\ ingLock = "free"
    /\ ingLock' = "free" /\ pc' = "pump"
    /\ UNCHANGED << result, playerLocals, current_media, flagVars, encVars,
                    decVars, ingest_stdout, ingState, ingChild, ingOut, ingSessions,
                    ingBytes, nodeIdx, histVars >>
    /\ UNCHANGED << argVars, sseVars, cliVars >>

\* lines 193-194: the ingest_stdout guard is taken; without a stream the
\* iteration ends and the guard is dropped at line 203
IngLock ==
    /\ pc = "ing_lock"
    /\ ingLock = "free"
    /\ IF ingest_stdout = "open"
       THEN ingLock' = "player" /\ pc' = "ing_read"
       ELSE ingLock' = "free" /\ pc' = "pump"
    /\ UNCHANGED << result, playerLocals, current_media, flagVars, encVars,
                    decVars, ingest_stdout, ingState, ingChild, ingOut, ingSessions,
                    ingBytes, nodeIdx, histVars >>
    /\ UNCHANGED << argVars, sseVars, cliVars >>

\* lines 195-199: one read of ingest stdout under the guard
IngRead ==
    /\ pc = "ing_read"
    /\ \/ /\ ingOut # <<>>
          /\ \E n \in 1..Min(ReadCap, Len(ingOut)) :
                /\ buffer' = ReadInto(buffer, ingOut, n)
                /\ num' = n
                /\ ingOut' = SubSeq(ingOut, n + 1, Len(ingOut))
          /\ pc' = "ing_write"
          /\ UNCHANGED << result, decStdout, ingLock, ingEof >>
       \/ /\ ingOut = <<>>
          /\ num' = 0
          /\ ingLock' = "free"
          /\ ingEof' = << decoder, ingSessions >>
          /\ pc' = "drop"
          /\ UNCHANGED << result, decStdout, buffer, ingOut >>
       \/ /\ ReturnErr
          /\ UNCHANGED << buffer, num, ingOut, ingEof >>
    /\ UNCHANGED << live_on, ingest_srv, current_media, flagVars, encVars,
                    decoder, nDec, decAlive, decSignalled, decOut, decErrTask, decBytes,
                    ingest_stdout, ingState, ingChild, ingSessions, ingBytes, nodeIdx,
                    stopObserved, readsAfterStop, nSkipped, decNode >>
    /\ UNCHANGED << argVars, sseVars, cliVars >>

\* line 201: write_all of the ingest bytes, the guard still held; line 203 drops it
IngWrite ==
    /\ pc = "ing_write"
    /\ \E o \in WriteAll(wbuf, WriteSlice(buffer, num), encState = "running") :
          /\ encIn' = encIn \o o.out
          /\ IF o.ok
             THEN /\ wbuf' = o.buf
                  /\ ingLock' = "free"
                  /\ pc' = "pump"
                  /\ UNCHANGED << result, decStdout >>
             ELSE /\ ReturnErr
                  /\ UNCHANGED wbuf
    /\ UNCHANGED << playerLocals, current_media, flagVars, encState, encSignalled,
                    encSpawns, encErrTask, decoder, nDec, decAlive, decSignalled, decOut,
                    decErrTask, decBytes, ingest_stdout, ingState, ingChild, ingOut,
                    ingSessions, ingBytes, nodeIdx, histVars >>
    /\ UNCHANGED << argVars, sseVars, cliVars >>

\* lines 212-216: one read of decoder stdout
DecRead ==
    /\ pc = "dec_read"
    /\ \/ /\ decOut # <<>>
          /\ \E n \in 1..Min(ReadCap, Len(decOut)) :
                /\ buffer' = ReadInto(buffer, decOut, n)
                /\ num' = n
                /\ decOut' = SubSeq(decOut, n + 1, Len(decOut))
          /\ readsAfterStop' = IF is_alive THEN readsAfterStop
                                ELSE Min(readsAfterStop + 1, 2)
          /\ pc' = "dec_write"
          /\ UNCHANGED << result, decStdout, ingLock >>
       \/ /\ decOut = <<>>
          /\ num' = 0
          /\ pc' = "drop"
          /\ UNCHANGED << result, decStdout, ingLock, buffer, decOut, readsAfterStop >>
       \/ /\ ReturnErr
          /\ UNCHANGED << buffer, num, decOut, readsAfterStop >>
    /\ UNCHANGED << live_on, ingest_srv, current_media, flagVars, encVars,
                    decoder, nDec, decAlive, decSignalled, decErrTask, decBytes,
                    ingest_stdout, ingState, ingChild, ingOut, ingSessions, ingBytes,
                    nodeIdx, stopObserved, ingEof, nSkipped, decNode >>
    /\ UNCHANGED << argVars, sseVars, cliVars >>

\* line 218: write_all of the decoder bytes
DecWrite ==
    /\ pc = "dec_write"
    /\ \E o \in WriteAll(wbuf, WriteSlice(buffer, num), encState = "running") :
          /\ encIn' = encIn \o o.out
          /\ IF o.ok
             THEN /\ wbuf' = o.buf
                  /\ pc' = "pump"
                  /\ UNCHANGED << result, decStdout, ingLock >>
             ELSE /\ ReturnErr
                  /\ UNCHANGED wbuf
    /\ UNCHANGED << playerLocals, current_media, flagVars, encState, encSignalled,
                    encSpawns, encErrTask, decoder, nDec, decAlive, decSignalled, decOut,
                    decErrTask, decBytes, ingest_stdout, ingState, ingChild, ingOut,
                    ingSessions, ingBytes, nodeIdx, histVars >>
    /\ UNCHANGED << argVars, sseVars, cliVars >>

\* the pump-loop exit goes straight to the next node: no wait, no join
DropStdoutNoReap ==
    /\ pc = "drop"
    /\ decStdout' = "dropped"
    /\ pc' = "next"
    /\ UNCHANGED << result, playerLocals, current_media, flagVars, encVars,
                    decoder, nDec, decAlive, decSignalled, decOut, decErrTask, decBytes,
                    ingVars, nodeIdx, histVars >>
    /\ UNCHANGED << argVars, sseVars, cliVars >>

\* the reaping of a decoder done with stop_all, which also signals the encoder
DropStdoutStopAll ==
    /\ pc = "drop"
    /\ decStdout' = "dropped"
    /\ decSignalled' = decSignalled \cup {decoder}
    /\ encSignalled' = TRUE
    /\ encState' = "exited"
    /\ pc' = "wait"
    /\ UNCHANGED << result, playerLocals, current_media, flagVars, wbuf, encIn,
                    encSpawns, encErrTask, decoder, nDec, decAlive, decOut, decErrTask,
                    decBytes, ingVars, nodeIdx, histVars >>
    /\ UNCHANGED << argVars, sseVars, cliVars >>

\* line 222: drop(decoder_stdout)
DropStdout ==
    /\ pc = "drop"
    /\ decStdout' = "dropped"
    /\ pc' = "wait"
    /\ UNCHANGED << result, playerLocals, current_media, flagVars, encVars,
                    decoder, nDec, decAlive, decSignalled, decOut, decErrTask, decBytes,
                    ingVars, nodeIdx, histVars >>
    /\ UNCHANGED << argVars, sseVars, cliVars >>

\* the wait returning at once, whether or not the child has exited
WaitDecoderNoWait ==
    /\ pc = "wait"
    /\ \/ /\ decoder # 0
          /\ decoder' = 0
          /\ pc' = "join_dec"
          /\ UNCHANGED << result, decStdout, ingLock >>
       \/ /\ ReturnErr
          /\ UNCHANGED decoder
    /\ UNCHANGED << playerLocals, current_media, flagVars, encVars, nDec,
                    decAlive, decSignalled, decOut, decErrTask, decBytes, ingest_stdout,
                    ingState, ingChild, ingOut, ingSessions, ingBytes, nodeIdx, histVars >>
    /\ UNCHANGED << argVars, sseVars, cliVars >>

\* line 224: manager.wait(Decoder).await? takes the handle of the exited
\* child; a failed wait returns the error
WaitDecoder ==
    /\ pc = "wait"
    /\ ManagerWaitDecoder
    /\ \/ /\ decoder # 0
          /\ decoder' = 0
          /\ pc' = "join_dec"
          /\ UNCHANGED << result, decStdout, ingLock >>
       \/ /\ ReturnErr
          /\ UNCHANGED decoder
    /\ UNCHANGED << playerLocals, current_media, flagVars, encVars, nDec,
                    decAlive, decSignalled, decOut, decErrTask, decBytes, ingest_stdout,
                    ingState, ingChild, ingOut, ingSessions, ingBytes, nodeIdx, histVars >>
    /\ UNCHANGED << argVars, sseVars, cliVars >>

\* line 225: error_decoder_task.await?? joins the finished drain; `??`
\* returns the drain's error
JoinDecoderTask ==
    /\ pc = "join_dec"
    /\ decErrTask \in {"ok", "err"}
    /\ \/ /\ decErrTask = "ok"
          /\ decErrTask' = "none"
          /\ pc' = "next"
          /\ UNCHANGED << result, decStdout, ingLock >>
       \/ /\ decErrTask = "err"
          /\ ReturnErr
          /\ UNCHANGED decErrTask
    /\ UNCHANGED << playerLocals, current_media, flagVars, encVars, decoder, nDec,
                    decAlive, decSignalled, decOut, decBytes, ingest_stdout, ingState,
                    ingChild, ingOut, ingSessions, ingBytes, nodeIdx, histVars >>
    /\ UNCHANGED << argVars, sseVars, cliVars >>

\* line 230: the grace sleep after the source loop
Sleep ==
    /\ pc = "sleep"
    /\ pc' = "await_ingest"
    /\ UNCHANGED << result, playerLocals, current_media, flagVars, encVars,
                    decVars, ingVars, nodeIdx, histVars >>
    /\ UNCHANGED << argVars, sseVars, cliVars >>

\* the supervisor not awaited: the shutdown goes on while it still runs
AwaitIngestNoWait ==
    /\ pc = "await_ingest"
    /\ pc' = "stop_all"
    /\ UNCHANGED << result, playerLocals, current_media, flagVars, encVars,
                    decVars, ingVars, nodeIdx, histVars >>
    /\ UNCHANGED << argVars, sseVars, cliVars >>

\* lines 232-234: ingest.await?? when the supervisor was spawned; `??` returns
\* its error
AwaitIngest ==
    /\ pc = "await_ingest"
    /\ ingest_srv => ingState \in {"exited", "failed"}
    /\ IF ingest_srv /\ ingState = "failed"
       THEN ReturnErr
       ELSE pc' = "stop_all" /\ UNCHANGED << result, decStdout, ingLock >>
    /\ UNCHANGED << playerLocals, current_media, flagVars, encVars,
                    decoder, nDec, decAlive, decSignalled, decOut, decErrTask, decBytes,
                    ingest_stdout, ingState, ingChild, ingOut, ingSessions, ingBytes,
                    nodeIdx, histVars >>
    /\ UNCHANGED << argVars, sseVars, cliVars >>

\* line 236: manager.stop_all(false).await?
StopAll ==
    /\ pc = "stop_all"
    /\ \/ /\ ManagerStopAll
          /\ pc' = "join_enc"
          /\ UNCHANGED << result, decStdout, ingLock >>
       \/ /\ ReturnErr
          /\ UNCHANGED << ingChild, decSignalled, encSignalled, encState >>
    /\ UNCHANGED << playerLocals, current_media, flagVars, wbuf, encIn, encSpawns,
                    encErrTask, decoder, nDec, decAlive, decOut, decErrTask, decBytes,
                    ingest_stdout, ingState, ingOut, ingSessions, ingBytes, nodeIdx,
                    histVars >>
    /\ UNCHANGED << argVars, sseVars, cliVars >>

\* lines 237-239: error_encoder_task.await?? joins the finished drain (`??`
\* returns its error), then Ok(())
JoinEncoderTask ==
    /\ pc = "join_enc"
    /\ encErrTask \in {"ok", "err"}
    /\ \/ /\ encErrTask = "ok"
          /\ pc' = "done"
          /\ result' = "Ok"
          /\ UNCHANGED << decStdout, ingLock >>
       \/ /\ encErrTask = "err"
          /\ ReturnErr
    /\ UNCHANGED << playerLocals, current_media, flagVars, wbuf, encIn, encState, encErrTask,
                    encSignalled, encSpawns, decoder, nDec, decAlive, decSignalled, decOut,
                    decErrTask, decBytes, ingest_stdout, ingState, ingChild, ingOut,
                    ingSessions, ingBytes, nodeIdx, histVars >>
    /\ UNCHANGED << argVars, sseVars, cliVars >>

(* --------------------------- environment ------------------------------- *)
\* the controller clears the master run flag
ClearIsAlive ==
    /\ is_alive
    /\ pc \notin {"start", "done"}
    /\ is_alive' = FALSE
    /\ UNCHANGED << pc, result, playerLocals, current_media, list_init,
                    ingest_is_alive, encVars, decVars, ingVars, nodeIdx, histVars >>
    /\ UNCHANGED << argVars, sseVars, cliVars >>

\* a decoder child exits: after its output ended, after a stop signal, or
\* once the read end of its stdout is gone
DecoderExit ==
    /\ \E d \in decAlive :
          /\ \/ d \in decSignalled
             \/ d # decoder
             \/ decStdout # "open"
             \/ decOut = <<>>
          /\ decAlive' = decAlive \ {d}
    /\ UNCHANGED << pc, result, playerLocals, current_media, flagVars, encVars,
                    decoder, nDec, decSignalled, decOut, decStdout, decErrTask, decBytes,
                    ingVars, nodeIdx, histVars >>
    /\ UNCHANGED << argVars, sseVars, cliVars >>

\* the decoder stderr drain ends when the child's stderr is closed, with Ok
\* or with an I/O error; the player can tell only at its join
DecoderDrainEnd ==
    /\ pc = "join_dec"
    /\ decErrTask = "running"
    /\ nDec \notin decAlive
    /\ decErrTask' \in {"ok", "err"}
    /\ UNCHANGED << pc, result, playerLocals, current_media, flagVars, encVars,
                    decoder, nDec, decAlive, decSignalled, decOut, decStdout, decBytes,
                    ingVars, nodeIdx, histVars >>
    /\ UNCHANGED << argVars, sseVars, cliVars >>

\* the encoder exits on its own (its stdin pipe loses its read end); the
\* player can tell only at a write to it
EncoderDies ==
    /\ encState = "running"
    /\ pc \in {"dec_write", "ing_write"}
    /\ encState' = "exited"
    /\ UNCHANGED << pc, result, playerLocals, current_media, flagVars, wbuf, encIn,
                    encSignalled, encSpawns, encErrTask, decVars, ingVars, nodeIdx,
                    histVars >>
    /\ UNCHANGED << argVars, sseVars, cliVars >>

\* the encoder stderr drain ends when the child's stderr is closed, with Ok
\* or with an I/O error; the player can tell only at its join
EncoderDrainEnd ==
    /\ pc = "join_enc"
    /\ encErrTask = "running"
    /\ encState = "exited"
    /\ encErrTask' \in {"ok", "err"}
    /\ UNCHANGED << pc, result, playerLocals, current_media, flagVars, wbuf, encIn,
                    encState, encSignalled, encSpawns, decVars, ingVars, nodeIdx,
                    histVars >>
    /\ UNCHANGED << argVars, sseVars, cliVars >>

(* ------------------------ ingest supervisor ---------------------------- *)
\* a live feed connects: the stream is published into ingest_stdout under
\* its lock, then the liveness flag is set (the player looks at the stream
\* only after it has seen the flag)
IngestGoLive ==
    /\ ingState = "listening"
    /\ is_alive
    /\ ingLock = "free"
    /\ \E len \in 1..(MaxIngBytes - ingBytes) :
          /\ ingOut' = Run("ing", ingBytes + 1, ingBytes + len)
          /\ ingBytes' = ingBytes + len
    /\ ingest_stdout' = "open"
    /\ ingSessions' = ingSessions + 1
    /\ ingest_is_alive' = TRUE
    /\ ingState' = "live"
    /\ UNCHANGED << pc, result, playerLocals, current_media, list_init, is_alive,
                    encVars, decVars, ingLock, ingChild, nodeIdx, histVars >>
    /\ UNCHANGED << argVars, sseVars, cliVars >>

\* the feed ended and all its bytes were delivered: the flag is cleared
IngestEnd ==
    /\ ingState = "live"
    /\ ingOut = <<>>
    /\ ingest_is_alive' = FALSE
    /\ ingState' = "ended"
    /\ UNCHANGED << pc, result, playerLocals, current_media, list_init, is_alive,
                    encVars, decVars, ingest_stdout, ingLock, ingChild, ingOut,
                    ingSessions, ingBytes, nodeIdx, histVars >>
    /\ UNCHANGED << argVars, sseVars, cliVars >>

\* the ended stream is taken out of ingest_stdout, under its lock
IngestClear ==
    /\ ingState = "ended"
    /\ ingLock = "free"
    /\ ingest_stdout' = "none"
    /\ ingState' = "listening"
    /\ UNCHANGED << pc, result, playerLocals, current_media, flagVars, encVars,
                    decVars, ingLock, ingChild, ingOut, ingSessions, ingBytes, nodeIdx,
                    histVars >>
    /\ UNCHANGED << argVars, sseVars, cliVars >>

\* the supervisor ends once is_alive is cleared and reaps its child; its
\* task result is Ok ("exited") or an error ("failed")
IngestExit ==
    /\ ingState \in {"listening", "live", "ended"}
    /\ ~is_alive
    /\ ingState' \in {"exited", "failed"}
    /\ ingChild' = FALSE
    /\ ingest_is_alive' = FALSE
    /\ ingOut' = <<>>
    /\ UNCHANGED << pc, result, playerLocals, current_media, list_init, is_alive,
                    encVars, decVars, ingest_stdout, ingLock, ingSessions, ingBytes,
                    nodeIdx, histVars >>
    /\ UNCHANGED << argVars, sseVars, cliVars >>

(* ------------------------ decoder arguments ---------------------------- *)
\* the inputs the argument list is built from
CmdTokens == {"-i", "v.mp4", "s.vtt"}
SeqsUpTo(S, n) == UNION {[1..k -> S] : k \in 0..n}
NodeCmds == SeqsUpTo(CmdTokens, MaxCmdLen)
Levels == {"ERROR", "Warning", "info"}
InputCmds == {None, Some(<<"-re">>), Some(<<"-hwaccel", "auto">>)}
Filters == {None, Some([cmd |-> <<"-filter_complex", "[0:v]null[v]">>,
                        map |-> <<"-map", "[v]">>])}
ProcessingCmds == {None, Some(<<"-f", "mpegts", "-">>)}

\* str::ends_with
EndsWith(str, suffix) ==
    /\ Len(str) >= Len(suffix)
    /\ SubSeq(str, Len(str) - Len(suffix) + 1, Len(str)) = suffix

\* str::to_lowercase, character by character
UpperAlpha == "ABCDEFGHIJKLMNOPQRSTUVWXYZ"
LowerAlpha == "abcdefghijklmnopqrstuvwxyz"
LowerChar(c) ==
    IF \E i \in 1..26 : SubSeq(UpperAlpha, i, i) = c
    THEN LET i == CHOOSE j \in 1..26 : SubSeq(UpperAlpha, j, j) = c
         IN  SubSeq(LowerAlpha, i, i)
    ELSE c
RECURSIVE ToLowercase(_)
ToLowercase(str) ==
    IF Len(str) = 0 THEN ""
    ELSE LowerChar(SubSeq(str, 1, 1)) \o ToLowercase(SubSeq(str, 2, Len(str)))

\* line 44: format!("level+{}", config.logging.ffmpeg_level.to_lowercase())
FfLogFormat(level) == "level+" \o ToLowercase(level)

\* iter().filter(|n| n == tok).count()
RECURSIVE CountOf(_, _)
CountOf(list, tok) ==
    IF list = <<>> THEN 0
    ELSE (IF Head(list) = tok THEN 1 ELSE 0) + CountOf(Tail(list), tok)

\* iter().any(|s| s.ends_with(suffix))
RECURSIVE AnyEndsWith(_, _)
AnyEndsWith(list, suffix) ==
    IF list = <<>> THEN FALSE
    ELSE EndsWith(Head(list), suffix) \/ AnyEndsWith(Tail(list), suffix)

\* usize::saturating_sub
SaturatingSub(a, b) == IF a >= b THEN a - b ELSE 0

\* line 134: the fixed prefix
BuildPrefix ==
    /\ argPc = "prefix"
    /\ dec_cmd' = <<"-hide_banner", "-nostats", "-v", FfLogFormat(ffmpeg_level)>>
    /\ argPc' = "input_cmd"
    /\ UNCHANGED << playerVars, argInputs, sseVars, cliVars >>

\* lines 136-138: the configured decoder-input arguments
AppendInputCmd ==
    /\ argPc = "input_cmd"
    /\ dec_cmd' = IF input_cmd.some THEN dec_cmd \o input_cmd.val ELSE dec_cmd
    /\ argPc' = "node_cmd"
    /\ UNCHANGED << playerVars, argInputs, sseVars, cliVars >>

\* line 140: the node's command
AppendNodeCmd ==
    /\ argPc = "node_cmd"
    /\ dec_cmd' = dec_cmd \o node_cmd
    /\ argPc' = "filter"
    /\ UNCHANGED << playerVars, argInputs, sseVars, cliVars >>

\* lines 142-145: filter.cmd() and then filter.map()
AppendFilter ==
    /\ argPc = "filter"
    /\ dec_cmd' = IF node_filter.some
                  THEN (dec_cmd \o node_filter.val.cmd) \o node_filter.val.map
                  ELSE dec_cmd
    /\ argPc' = "vtt"
    /\ UNCHANGED << playerVars, argInputs, sseVars, cliVars >>

\* the subtitle stream index taken as the count of "-i" itself
AppendVttCount ==
    /\ argPc = "vtt"
    /\ dec_cmd' = IF vtt_enable /\ AnyEndsWith(dec_cmd, ".vtt")
                  THEN LET i == CountOf(dec_cmd, "-i")
                       IN  dec_cmd \o <<"-map", ToString(i) \o ":s", "-c:s", "copy">>
                  ELSE dec_cmd
    /\ argPc' = "tail"
    /\ UNCHANGED << playerVars, argInputs, sseVars, cliVars >>

\* lines 147-155: the subtitle mapping
AppendVtt ==
    /\ argPc = "vtt"
    /\ dec_cmd' = IF vtt_enable /\ AnyEndsWith(dec_cmd, ".vtt")
                  THEN LET i == SaturatingSub(CountOf(dec_cmd, "-i"), 1)
                       IN  dec_cmd \o <<"-map", ToString(i) \o ":s", "-c:s", "copy">>
                  ELSE dec_cmd
    /\ argPc' = "tail"
    /\ UNCHANGED << playerVars, argInputs, sseVars, cliVars >>

\* lines 157-159: the processing arguments; the list then goes to
\* Command::new("ffmpeg").args(dec_cmd) (lines 167-168)
AppendTail ==
    /\ argPc = "tail"
    /\ dec_cmd' = IF processing_cmd.some THEN dec_cmd \o processing_cmd.val ELSE dec_cmd
    /\ argPc' = "spawn"
    /\ UNCHANGED << playerVars, argInputs, sseVars, cliVars >>

\* the construction of the argument list, for every node command and config
DecCmdInit ==
    /\ PlayerInit
    /\ SseIdle
    /\ CliIdle
    /\ argPc = "prefix"
    /\ dec_cmd = <<>>
    /\ ffmpeg_level \in Levels
    /\ input_cmd \in InputCmds
    /\ node_cmd \in NodeCmds
    /\ node_filter \in Filters
    /\ vtt_enable \in BOOLEAN
    /\ processing_cmd \in ProcessingCmds

DecCmdNext ==
    \/ BuildPrefix
    \/ AppendInputCmd
    \/ AppendNodeCmd
    \/ AppendFilter
    \/ AppendVtt
    \/ AppendTail

DecCmdSpec == DecCmdInit /\ [][DecCmdNext]_vars

(* --------------------------- SSE handlers ------------------------------ *)
\* Each request is a future polled by one worker thread of the server. The
\* uuids mutex is std::sync::Mutex: lock() parks the calling thread until
\* the mutex is free, and the guard is released when it goes out of scope.
Reqs == 1..MaxReqs
Workers == 1..NumWorkers
Handlers == {"generate_uuid", "validate_uuid", "event_stream"}

\* the thread of worker w is inside a poll: it runs the synchronous part of
\* a handler or is parked inside lock()
Occupied(w) ==
    \E r \in Reqs : sseWorker[r] = w /\ sseAt[r] \in {"blocked", "locked"}

\* a request is routed to a handler on some worker
SseArrive(r) ==
    /\ sseHandler[r] = "none"
    /\ r > 1 => sseHandler[r - 1] # "none"
    /\ \E h \in Handlers, w \in Workers :
          /\ sseHandler' = [sseHandler EXCEPT ![r] = h]
          /\ sseWorker' = [sseWorker EXCEPT ![r] = w]
    /\ sseAt' = [sseAt EXCEPT ![r] = "start"]
    /\ UNCHANGED << uuidsGuard, playerVars, argVars, cliVars >>

\* first poll: data.uuids.lock() (lines 31, 52, 73)
SseLock(r) ==
    /\ sseAt[r] = "start"
    /\ ~Occupied(sseWorker[r])
    /\ IF uuidsGuard = 0
         THEN /\ uuidsGuard' = r
              /\ sseAt' = [sseAt EXCEPT ![r] = "locked"]
         ELSE /\ sseAt' = [sseAt EXCEPT ![r] = "blocked"]
              /\ UNCHANGED uuidsGuard
    /\ UNCHANGED << sseHandler, sseWorker, playerVars, argVars, cliVars >>

\* lock() returns to a parked thread once the mutex is free
SseLockGranted(r) ==
    /\ sseAt[r] = "blocked"
    /\ uuidsGuard = 0
    /\ uuidsGuard' = r
    /\ sseAt' = [sseAt EXCEPT ![r] = "locked"]
    /\ UNCHANGED << sseHandler, sseWorker, playerVars, argVars, cliVars >>

\* the synchronous part under the guard: generate_uuid (lines 32-39) and
\* validate_uuid (lines 54-57) return and drop the guard; event_stream
\* returns on a failed check_uuid (lines 75-77), and otherwise suspends at
\* playout_config(..).await with the guard still in scope (line 79)
SseBody(r) ==
    /\ sseAt[r] = "locked"
    /\ \/ /\ sseHandler[r] \in {"generate_uuid", "validate_uuid"}
          /\ sseAt' = [sseAt EXCEPT ![r] = "done"]
          /\ uuidsGuard' = 0
       \/ /\ sseHandler[r] = "event_stream"
          /\ sseAt' = [sseAt EXCEPT ![r] = "done"]
          /\ uuidsGuard' = 0
       \/ /\ sseHandler[r] = "event_stream"
          /\ sseAt' = [sseAt EXCEPT ![r] = "await_config"]
          /\ UNCHANGED uuidsGuard
    /\ UNCHANGED << sseHandler, sseWorker, playerVars, argVars, cliVars >>

\* playout_config is ready and the worker polls the future again (line 79):
\* an error returns through `?`; otherwise new_client is awaited, which is
\* ready at once or suspends (lines 81-83)
SseConfigReady(r) ==
    /\ sseAt[r] = "await_config"
    /\ ~Occupied(sseWorker[r])
    /\ \/ /\ sseAt' = [sseAt EXCEPT ![r] = "done"]
          /\ uuidsGuard' = 0
       \/ /\ sseAt' = [sseAt EXCEPT ![r] = "await_client"]
          /\ UNCHANGED uuidsGuard
    /\ UNCHANGED << sseHandler, sseWorker, playerVars, argVars, cliVars >>

\* new_client is ready and the worker polls the future: the handler returns
\* and the guard goes out of scope (lines 81-84)
SseClientReady(r) ==
    /\ sseAt[r] = "await_client"
    /\ ~Occupied(sseWorker[r])
    /\ sseAt' = [sseAt EXCEPT ![r] = "done"]
    /\ uuidsGuard' = 0
    /\ UNCHANGED << sseHandler, sseWorker, playerVars, argVars, cliVars >>

SseInit ==
    /\ PlayerInit
    /\ ArgsIdle
    /\ SseIdle
    /\ CliIdle

SseNext ==
    \/ \E r \in Reqs : SseArrive(r)
    \/ \E r \in Reqs : SseLock(r)
    \/ \E r \in Reqs : SseLockGranted(r)
    \/ \E r \in Reqs : SseBody(r)
    \/ \E r \in Reqs : SseConfigReady(r)
    \/ \E r \in Reqs : SseClientReady(r)

SseSpec == SseInit /\ [][SseNext]_vars

\* a worker keeps running the poll it is in and polls every future that is
\* ready; a parked thread is woken once the mutex is free; the database and
\* the broadcaster answer
SseFairness ==
    \A r \in Reqs :
        /\ WF_vars(SseLock(r))
        /\ SF_vars(SseLockGranted(r))
        /\ WF_vars(SseBody(r))
        /\ WF_vars(SseConfigReady(r))
        /\ WF_vars(SseClientReady(r))

SseFairSpec == SseSpec /\ SseFairness

(* ------------------------------ run_args ------------------------------- *)
ChannelLists == {None} \cup {Some([i \in 1..k |-> i]) : k \in 1..MaxChannels}

ArgSets ==
    [init : BOOLEAN, add : BOOLEAN, username : BOOLEAN, mail : BOOLEAN,
     password : BOOLEAN, list_channels : BOOLEAN, drop_db : BOOLEAN,
     dump_advanced : BOOLEAN, dump_config : BOOLEAN,
     import_advanced : BOOLEAN, import_config : BOOLEAN, channels : ChannelLists]

\* global_user (lines 185-217): what is missing is read from the terminal;
\* the password is read_password().ok(), pw tells whether that read worked
GlobalUser(a, pw) ==
    [a EXCEPT !.username = TRUE,
              !.password = IF a.password THEN TRUE ELSE pw,
              !.mail = TRUE]

\* the four blocks over ARGS.channels, in the order of lines 432-510
ChannelOps == << "dump_advanced", "dump_config", "import_advanced", "import_config" >>

AfterOp(op) ==
    CASE op = "dump_advanced"   -> "dump_config"
      [] op = "dump_config"     -> "import_advanced"
      [] op = "import_advanced" -> "import_config"
      [] op = "import_config"   -> "return"

Panic ==
    /\ cliPc' = "done"
    /\ cliResult' = "panic"

\* lines 223-227: the migration runs unless a dump or drop_db was asked for
CliMigrate ==
    /\ cliPc = "migrate"
    /\ IF ~args.dump_advanced /\ ~args.dump_config /\ ~args.drop_db
         THEN \/ Panic
              \/ /\ cliPc' = "init"
                 /\ UNCHANGED cliResult
         ELSE /\ cliPc' = "init"
              /\ UNCHANGED cliResult
    /\ UNCHANGED << args, error_code, chanIdx, anyPerformed, anyFailed >>
    /\ UNCHANGED << playerVars, argVars, sseVars >>

\* lines 233-254 and 387-389: error_code starts at -1; --init asks for the
\* global admin when there is no user yet, --add asks for it always
CliInitUser ==
    /\ cliPc = "init"
    /\ IF args.init
         THEN /\ \/ UNCHANGED args
                 \/ \E pw \in BOOLEAN : args' = GlobalUser(args, pw)
              /\ cliPc' = "update_global"
         ELSE /\ IF args.add
                   THEN \E pw \in BOOLEAN : args' = GlobalUser(args, pw)
                   ELSE UNCHANGED args
              /\ cliPc' = "user"
    /\ UNCHANGED << error_code, chanIdx, anyPerformed, anyFailed, cliResult >>
    /\ UNCHANGED << playerVars, argVars, sseVars >>

\* lines 350-353: a failed update_global is printed and sets error_code
CliUpdateGlobal ==
    /\ cliPc = "update_global"
    /\ \/ UNCHANGED << error_code, anyFailed >>
       \/ /\ error_code' = 1
          /\ anyFailed' = TRUE
    /\ cliPc' = "update_channel"
    /\ UNCHANGED << args, chanIdx, anyPerformed, cliResult >>
    /\ UNCHANGED << playerVars, argVars, sseVars >>

\* lines 354-386: select_channel and update_channel are unwrapped, a failed
\* copy_assets is only printed
CliUpdateChannel ==
    /\ cliPc = "update_channel"
    /\ \/ Panic
       \/ /\ cliPc' = "user"
          /\ UNCHANGED cliResult
    /\ UNCHANGED << args, error_code, chanIdx, anyPerformed, anyFailed >>
    /\ UNCHANGED << playerVars, argVars, sseVars >>

\* lines 391-413: with a user name, error_code becomes 0, mail and password
\* are unwrapped, and a failed insert_user sets error_code to 1
CliUser ==
    /\ cliPc = "user"
    /\ IF args.username
         THEN IF args.mail /\ args.password
                THEN /\ \/ /\ error_code' = 0
                           /\ UNCHANGED anyFailed
                        \/ /\ error_code' = 1
                           /\ anyFailed' = TRUE
                     /\ anyPerformed' = TRUE
                     /\ cliPc' = "list"
                     /\ UNCHANGED cliResult
                ELSE /\ Panic
                     /\ error_code' = 0
                     /\ UNCHANGED << anyPerformed, anyFailed >>
         ELSE /\ cliPc' = "list"
              /\ UNCHANGED << error_code, anyPerformed, anyFailed, cliResult >>
    /\ UNCHANGED << args, chanIdx >>
    /\ UNCHANGED << playerVars, argVars, sseVars >>

\* lines 415-430: listing the channels sets error_code to 0
CliList ==
    /\ cliPc = "list"
    /\ IF args.list_channels
         THEN /\ error_code' = 0
              /\ anyPerformed' = TRUE
         ELSE UNCHANGED << error_code, anyPerformed >>
    /\ cliPc' = "dump_advanced"
    /\ UNCHANGED << args, chanIdx, anyFailed, cliResult >>
    /\ UNCHANGED << playerVars, argVars, sseVars >>

\* the head of a dump or import block (lines 432-433, 452-453, 472-473,
\* 492-493) and its else branch (lines 446-449, ...): without --channels the
\* request fails with error_code 1
CliOpEnter ==
    /\ cliPc \in { ChannelOps[i] : i \in 1..Len(ChannelOps) }
    /\ chanIdx = 0
    /\ IF ~args[cliPc]
         THEN /\ cliPc' = AfterOp(cliPc)
              /\ UNCHANGED << error_code, chanIdx, anyPerformed, anyFailed >>
         ELSE IF ~args.channels.some
                THEN /\ error_code' = 1
                     /\ anyPerformed' = TRUE
                     /\ anyFailed' = TRUE
                     /\ cliPc' = AfterOp(cliPc)
                     /\ UNCHANGED chanIdx
                ELSE /\ chanIdx' = 1
                     /\ UNCHANGED << cliPc, error_code, anyPerformed, anyFailed >>
    /\ UNCHANGED << args, cliResult >>
    /\ UNCHANGED << playerVars, argVars, sseVars >>

\* one iteration of `for id in channels` (lines 434-445, ...): the outcome
\* for this id is written to error_code
CliOpChannel ==
    /\ cliPc \in { ChannelOps[i] : i \in 1..Len(ChannelOps) }
    /\ chanIdx >= 1
    /\ \/ /\ error_code' = 0
          /\ UNCHANGED anyFailed
       \/ /\ error_code' = 1
          /\ anyFailed' = TRUE
    /\ anyPerformed' = TRUE
    /\ IF chanIdx < Len(args.channels.val)
         THEN /\ chanIdx' = chanIdx + 1
              /\ UNCHANGED cliPc
         ELSE /\ chanIdx' = 0
              /\ cliPc' = AfterOp(cliPc)
    /\ UNCHANGED << args, cliResult >>
    /\ UNCHANGED << playerVars, argVars, sseVars >>

\* lines 512-516
CliReturn ==
    /\ cliPc = "return"
    /\ cliPc' = "done"
    /\ cliResult' = IF error_code > -1
                      THEN (IF error_code = 0 THEN "Err0" ELSE "Err1")
                      ELSE "Ok"
    /\ UNCHANGED << args, error_code, chanIdx, anyPerformed, anyFailed >>
    /\ UNCHANGED << playerVars, argVars, sseVars >>

\* run_args for every command line
CliInit ==
    /\ PlayerInit
    /\ ArgsIdle
    /\ SseIdle
    /\ cliPc = "migrate"
    /\ args \in ArgSets
    /\ error_code = -1
    /\ chanIdx = 0
    /\ anyPerformed = FALSE
    /\ anyFailed = FALSE
    /\ cliResult = "none"

CliNext ==
    \/ CliMigrate
    \/ CliInitUser
    \/ CliUpdateGlobal
    \/ CliUpdateChannel
    \/ CliUser
    \/ CliList
    \/ CliOpEnter
    \/ CliOpChannel
    \/ CliReturn

CliSpec == CliInit /\ [][CliNext]_vars

(* --------------------------- specification ----------------------------- *)
Next ==
    \/ Startup
    \/ NextNode
    \/ CheckAlive
    \/ SpawnDecoder
    \/ PumpSwitchToLive
    \/ PumpLive
    \/ PumpSwitchBack
    \/ PumpPlay
    \/ IngLock
    \/ IngRead
    \/ IngWrite
    \/ DecRead
    \/ DecWrite
    \/ DropStdout
    \/ WaitDecoder
    \/ JoinDecoderTask
    \/ Sleep
    \/ AwaitIngest
    \/ StopAll
    \/ JoinEncoderTask
    \/ ClearIsAlive
    \/ DecoderExit
    \/ DecoderDrainEnd
    \/ EncoderDies
    \/ EncoderDrainEnd
    \/ IngestGoLive
    \/ IngestEnd
    \/ IngestClear
    \/ IngestExit

Spec == Init /\ [][Next]_vars

\* the steps of the player task itself
PlayerStep ==
    \/ Startup
    \/ NextNode
    \/ CheckAlive
    \/ SpawnDecoder
    \/ PumpSwitchToLive
    \/ PumpLive
    \/ PumpSwitchBack
    \/ PumpPlay
    \/ IngLock
    \/ IngRead
    \/ IngWrite
    \/ DecRead
    \/ DecWrite
    \/ DropStdout
    \/ WaitDecoder
    \/ JoinDecoderTask
    \/ Sleep
    \/ AwaitIngest
    \/ StopAll
    \/ JoinEncoderTask

\* fair scheduling: the executor runs every task that can make a step (the
\* player, the ingest supervisor, the two stderr drains), and a child that
\* can exit does exit. Nothing is assumed of the controller (ClearIsAlive),
\* of a feed connecting (IngestGoLive) or of the encoder dying on its own.
Fairness ==
    /\ WF_vars(PlayerStep)
    /\ WF_vars(IngestEnd)
    /\ WF_vars(IngestClear)
    /\ WF_vars(IngestExit)
    /\ WF_vars(DecoderExit)
    /\ WF_vars(DecoderDrainEnd)
    /\ WF_vars(EncoderDrainEnd)

FairSpec == Spec /\ Fairness

TypeOK ==
    /\ pc \in {"start", "next", "check_alive", "spawn", "pump", "ing_lock", "ing_read",
               "ing_write", "dec_read", "dec_write", "drop", "wait", "join_dec",
               "sleep", "await_ingest", "stop_all", "join_enc", "done"}
    /\ result \in {"none", "Ok", "Err", "panic"}
    /\ num \in 0..ReadCap
    /\ Len(wbuf) <= WriterCap

(* ------------------------------ claims --------------------------------- *)
\* everything written through the buffered writer so far, in order
Written == encIn \o wbuf

\* C1: when no ingest session ever started and player() returned Ok, the
\* encoder's stdin pipe has received exactly the bytes the decoders emitted,
\* in order (bytes 1..decBytes of the decoders, nothing else).
C1_BytePassthrough ==
    (pc = "done" /\ result = "Ok" /\ ingSessions = 0) => encIn = Run("dec", 1, decBytes)

\* C2: a pump iteration's write appends to the encoder stream exactly the
\* num >= 1 bytes of the one read that preceded it: a run of consecutive
\* bytes of the producer the iteration selected (decoder or ingest).
C2_SingleProducer ==
    [][(pc \in {"dec_write", "ing_write"} /\ pc' = "pump") =>
         LET old   == Written
             new   == Written'
             delta == SubSeq(new, Len(old) + 1, Len(new))
             tag   == IF pc = "dec_write" THEN "dec" ELSE "ing"
         IN  /\ SubSeq(new, 1, Len(old)) = old
             /\ Len(delta) = num
             /\ num >= 1
             /\ delta = Run(tag, delta[1][2], delta[1][2] + num - 1)]_vars

\* C2 witness: the encoder stream holds bytes of both producers
C2_Witness ==
    /\ \E i \in 1..Len(Written) : Written[i][1] = "dec"
    /\ \E i \in 1..Len(Written) : Written[i][1] = "ing"
    /\ pc = "pump"

\* C3: once the loop has observed is_alive cleared at its top-of-iteration
\* check, no decoder is spawned any more and the observation stays.
C3_NoDecoderAfterStop ==
    [][stopObserved => (nDec' = nDec /\ decoder' = decoder /\ stopObserved')]_vars

\* C3 witness: the stop was observed while the iterator could still yield nodes
C3_Witness ==
    stopObserved /\ pc = "done" /\ nodeIdx < MaxNodes /\ current_media.cmd /\ ~current_media.skip

\* C4: at most one decoder child is alive in every state, and a decoder is
\* spawned only when the previous one has exited and its handle was awaited.
C4_OneDecoder ==
    /\ [](Cardinality(decAlive) <= 1)
    /\ [][nDec' # nDec => (decAlive = {} /\ decoder = 0 /\ nDec' = nDec + 1)]_vars

\* C4 witness: a second decoder runs, after a live-ingest preemption of the first
C4_Witness ==
    nDec = 2 /\ decAlive = {2} /\ 1 \in decSignalled

\* C5: at most one encoder is ever spawned, exactly one exists from startup
\* on, and it is neither signalled nor made to exit by the player before
\* stop_all in the shutdown sequence.
C5_OneEncoder ==
    /\ [](encSpawns <= 1)
    /\ [](pc \notin {"start", "done"} => encSpawns = 1)
    /\ [](encSignalled => pc \in {"join_enc", "done"})
    /\ [][encSpawns' # encSpawns => pc = "start"]_vars
    /\ [][encSignalled' # encSignalled => pc = "stop_all"]_vars

\* C5 witness: the shutdown signals the one encoder after a node boundary and an ingest switch
C5_Witness ==
    encSpawns = 1 /\ nDec = 2 /\ decSignalled # {} /\ encSignalled /\ result = "Ok"

\* C6: the player does not hold the ingest_stdout lock while it awaits the
\* write of the bytes to encoder stdin.
C6_LockDiscipline ==
    pc = "ing_write" => ingLock # "player"

\* C7: when player() has returned (Ok or error), the encoder it spawned was
\* stopped by stop_all, every decoder it spawned was awaited or signalled to
\* stop, and the ingest child is gone.
C7_Cleanup ==
    (pc = "done" /\ result \in {"Ok", "Err"}) =>
        /\ encSpawns > 0 => encSignalled
        /\ \A d \in 1..nDec : (d \notin decAlive /\ decoder # d) \/ d \in decSignalled
        /\ ~ingChild

\* C8: the pump step that sees ingest_is_alive with live_on unset either
\* returns an error or signals the decoder, sets live_on and list_init and
\* writes nothing; ingest is read only with live_on set; and nothing is read
\* from the stdout of a decoder that was signalled to stop.
C8_Preemption ==
    /\ [][(pc = "pump" /\ ingest_is_alive /\ ~live_on /\ pc' # "pump") =>
            \/ pc' = "done" /\ result' = "Err"
            \/ /\ decoder \in decSignalled'
               /\ live_on'
               /\ list_init'
               /\ Written' = Written]_vars
    /\ [](pc \in {"ing_lock", "ing_read", "ing_write"} => live_on)
    /\ [][(decoder # 0 /\ decoder \in decSignalled /\ decoder' = decoder) =>
            decOut' = decOut]_vars

\* C8 witness: an ingest byte is about to be written after the preemption of
\* a decoder that still had output
C8_Witness ==
    pc = "ing_write" /\ decoder \in decSignalled /\ live_on /\ list_init /\ decOut # <<>>

\* C9: the first decoder spawned after the pump read the ingest's EOF, with
\* ingest_is_alive cleared and no new live session, is read until its EOF
\* before its stdout is dropped.
C9_RevertAfterIngest ==
    (/\ pc = "drop"
     /\ ingEof[1] # 0
     /\ decoder = ingEof[1] + 1
     /\ ingEof[2] = ingSessions
     /\ ~ingest_is_alive) => decOut = <<>>

\* C10: once is_alive is cleared during the pump of a decoder, at most one
\* more read of that decoder's stdout returns bytes: the pump loop breaks
\* within one buffer read.
C10_GracefulStop ==
    readsAfterStop <= 1

\* C11: a write the pump attempts while the encoder's stdin pipe has lost its
\* read end fails, and the player returns the error: the step out of the
\* write ends player() with Err, so no read, write or spawn follows it.
C11_EncoderWriteFatal ==
    [][(pc \in {"dec_write", "ing_write"} /\ encState = "exited" /\ pc' # pc) =>
          (pc' = "done" /\ result' = "Err")]_vars

\* C12: a failed decoder spawn and a failed read of decoder stdout do not end
\* player() with an error.
C12_DecoderFailureRecoverable ==
    [][(pc \in {"spawn", "dec_read"}) => ~(pc' = "done" /\ result' = "Err")]_vars

\* the state a successful startup leaves: one running encoder whose stdin is
\* behind the (empty) writer and whose stderr is being drained, the ingest
\* supervisor as configured, the source loop about to ask for its first node
StartedWith(ingest_enable) ==
    /\ pc' = "next" /\ result' = "none"
    /\ encSpawns' = 1 /\ encState' = "running" /\ encErrTask' = "running"
    /\ wbuf' = <<>> /\ encIn' = <<>>
    /\ ingest_srv' = ingest_enable
    /\ ingState' = (IF ingest_enable THEN "listening" ELSE "off")
    /\ nDec' = 0 /\ nodeIdx' = 0 /\ ~live_on'

\* C13: under each of the four output modes the startup can spawn
\* its one encoder, and whenever it gets past the spawn it has left the same
\* started state, whatever the mode.
C13_EveryModeSpawns ==
    pc = "start" =>
        \A c \in Configs :
            /\ ENABLED (SpawnEncoder(c) /\ StartedWith(c.ingest_enable))
            /\ ~ENABLED (SpawnEncoder(c) /\ pc' # "done" /\ ~StartedWith(c.ingest_enable))

\* C14: a node with a command and the skip flag is published as
\* current_media, gets no decoder and the loop goes on to the next node;
\* current_media follows the iterator order; at every request for the next
\* node each node yielded so far was either skipped or got its decoder; and
\* when player() returned Ok with no live session, the encoder has received
\* the played nodes' bytes in the order of the nodes.
C14_SkipNodes ==
    /\ [][(pc = "check_alive" /\ is_alive /\ current_media.cmd /\ current_media.skip
            /\ pc' # pc) =>
             (pc' = "next" /\ nDec' = nDec /\ decoder' = decoder
              /\ current_media' = current_media)]_vars
    /\ [](current_media.index = nodeIdx)
    /\ [][nodeIdx' \in {nodeIdx, nodeIdx + 1}]_vars
    /\ [](pc = "next" => nDec + nSkipped = nodeIdx)
    /\ []((pc = "done" /\ result = "Ok" /\ ingSessions = 0 /\ nSkipped >= 1) =>
             encIn = Run("dec", 1, decBytes))

\* the positions of the shutdown sequence (lines 228-239) and the return
ShutdownPcs == {"sleep", "await_ingest", "stop_all", "join_enc", "done"}

\* C15: when the iterator yields no node, and when it yields a node whose
\* command is absent (its skip flag set or not), the loop ends and the
\* shutdown sequence starts; from then on no node is requested, no decoder is
\* spawned and the player stays in the shutdown sequence.
C15_EndOfSchedule ==
    /\ [][(pc = "next" /\ pc' # pc /\ nodeIdx' = nodeIdx) => pc' = "sleep"]_vars
    /\ [][(pc = "check_alive" /\ ~current_media.cmd /\ pc' # pc) => pc' = "sleep"]_vars
    /\ [][(pc \in ShutdownPcs /\ pc # "done") =>
             (pc' \in ShutdownPcs /\ nodeIdx' = nodeIdx /\ nDec' = nDec
              /\ decoder' = decoder /\ current_media' = current_media)]_vars
    /\ [](pc = "sleep" => ~encSignalled)

\* C15 witness: the shutdown ran to its end after a node that has the skip
\* flag and no command, with the iterator able to yield more nodes
C15_Witness ==
    /\ pc = "done" /\ result = "Ok"
    /\ ~current_media.cmd /\ current_media.skip
    /\ is_alive /\ nodeIdx < MaxNodes

\* sub occurs in list as a run of adjacent arguments
Contains(list, sub) ==
    \E k \in 0..(Len(list) - Len(sub)) : SubSeq(list, k + 1, k + Len(sub)) = sub

\* the argument layout as the claim words it
Layout ==
    LET level  == CASE ffmpeg_level = "ERROR" -> "error"
                    [] ffmpeg_level = "Warning" -> "warning"
                    [] ffmpeg_level = "info" -> "info"
        front  == <<"-hide_banner", "-nostats", "-v", "level+" \o level>>
                     \o input_cmd.val \o node_cmd
                     \o (IF node_filter.some THEN node_filter.val.cmd ELSE <<>>)
                     \o (IF node_filter.some THEN node_filter.val.map ELSE <<>>)
        inputs == Cardinality({k \in DOMAIN front : front[k] = "-i"})
        i      == IF inputs - 1 > 0 THEN inputs - 1 ELSE 0
        hasVtt == \E k \in DOMAIN front :
                     \E stem \in {"s", "v.mp4", "x"} : front[k] = stem \o ".vtt"
    IN  front
          \o (IF vtt_enable /\ hasVtt
              THEN <<"-map", ToString(i) \o ":s", "-c:s", "copy">> ELSE <<>>)
          \o processing_cmd.val

\* C16: the argument list handed to the decoder spawn has the claimed
\* layout, and for the node command -i v.mp4 -i s.vtt with vtt enabled it
\* holds -map 1:s -c:s copy.
C16_DecoderArgs ==
    argPc = "spawn" =>
        /\ dec_cmd = Layout
        /\ (node_cmd = <<"-i", "v.mp4", "-i", "s.vtt">> /\ vtt_enable) =>
               Contains(dec_cmd, <<"-map", "1:s", "-c:s", "copy">>)

\* C16 witness: the list was built for that node command under a full config
C16_Witness ==
    /\ argPc = "spawn"
    /\ node_cmd = <<"-i", "v.mp4", "-i", "s.vtt">> /\ vtt_enable
    /\ ffmpeg_level = "Warning" /\ input_cmd.some /\ node_filter.some /\ processing_cmd.some
    /\ Contains(dec_cmd, <<"-map", "1:s", "-c:s", "copy">>)
    /\ Len(dec_cmd) >= 20

\* C17: the shutdown goes sleep, await of the ingest supervisor, stop_all,
\* join of the encoder stderr drain, in this order: stop_all is entered only
\* from the await and only once a spawned supervisor has ended without
\* error, the encoder is signalled only by the stop_all step, the drain is
\* joined only after it, and Ok is returned only when the supervisor and
\* the drain ended without error.
C17_ShutdownOrder ==
    /\ [][(pc \in ShutdownPcs /\ pc' # pc) =>
             \/ pc = "sleep" /\ pc' = "await_ingest"
             \/ pc = "await_ingest" /\ pc' \in {"stop_all", "done"}
             \/ pc = "stop_all" /\ pc' \in {"join_enc", "done"}
             \/ pc = "join_enc" /\ pc' = "done"]_vars
    /\ [][(pc # "stop_all" /\ pc' = "stop_all") =>
             (pc = "await_ingest" /\ (ingest_srv => ingState = "exited"))]_vars
    /\ [][(encSignalled' # encSignalled) => (pc = "stop_all" /\ pc' = "join_enc")]_vars
    /\ [](pc = "join_enc" => encSignalled)
    /\ [](result = "Ok" =>
             /\ pc = "done" /\ encSignalled /\ encErrTask = "ok"
             /\ ingest_srv => ingState = "exited")

\* C17 witness: Ok was returned after a live session, the supervisor awaited
C17_Witness ==
    result = "Ok" /\ ingest_srv /\ ingState = "exited" /\ ingSessions >= 1 /\ nDec >= 1

\* the positions inside the pump loop (lines 182-220)
PumpPcs == {"pump", "ing_lock", "ing_read", "ing_write", "dec_read", "dec_write"}

\* C18: the pump loop is left, unless by a returned error, to the drop of
\* the decoder stdout handle; then the decoder's exit is awaited (the child
\* has exited when the wait returns), then the stderr drain is joined (it
\* has ended); and the iterator is asked for the next node only with all
\* three done.
C18_ReapingOrder ==
    /\ [][(pc \in PumpPcs /\ pc' \notin PumpPcs) => pc' \in {"drop", "done"}]_vars
    /\ [][(pc \in {"drop", "wait", "join_dec"} /\ pc' # pc /\ pc' # "done") =>
             \/ pc = "drop" /\ pc' = "wait" /\ decStdout' = "dropped"
             \/ /\ pc = "wait" /\ pc' = "join_dec"
                /\ decStdout = "dropped" /\ nDec \notin decAlive /\ decoder' = 0
             \/ /\ pc = "join_dec" /\ pc' = "next"
                /\ decErrTask = "ok" /\ decErrTask' = "none"]_vars
    /\ []((pc = "next" /\ nDec > 0) =>
             /\ decStdout = "dropped"
             /\ decoder = 0 /\ nDec \notin decAlive
             /\ decErrTask = "none")

\* C18 witness: the next node is about to be requested after a decoder was
\* reaped whose pump loop ended at the EOF of a live session
C18_Witness ==
    pc = "next" /\ nDec >= 1 /\ ingEof[1] = nDec /\ decSignalled = {nDec}

\* C19: an error of the decoder wait, and a decoder stderr drain that ended
\* with an I/O error, do not end player() with an error: the loop goes on to
\* the next node.
C19_ReapErrorsRecoverable ==
    [][(pc \in {"wait", "join_dec"}) => ~(pc' = "done" /\ result' = "Err")]_vars

\* C20: once a decoder was spawned, current_media is the node of the most
\* recently spawned decoder (the current one while it runs), in every state
\* outside the steps from the publication of a node to its decoder spawn;
\* so also after a skip node, after the end-of-schedule node and after
\* is_alive was seen cleared.
C20_CurrentMediaIsDecoderNode ==
    (nDec > 0 /\ pc \notin {"check_alive", "spawn"}) => current_media.index = decNode

\* C20 amended: current_media is the node the iterator yielded last; while
\* the player holds a decoder, and through its pump and reaping, that is the
\* decoder's node, a node with a command and without the skip flag.
C20_CurrentMediaIsLastYielded ==
    /\ current_media.index = nodeIdx
    /\ nodeIdx = 0 => current_media = NoNode
    /\ (decoder # 0 \/ pc \in PumpPcs \cup {"drop", "wait", "join_dec"}) =>
          /\ current_media.index = decNode
          /\ current_media.cmd /\ ~current_media.skip

\* C20 witness: a skip node was published and passed after a decoder was
\* spawned for an earlier node
C20_Witness ==
    /\ pc = "next" /\ nDec >= 1
    /\ current_media.cmd /\ current_media.skip
    /\ current_media.index = nodeIdx /\ decNode < nodeIdx

\* C21: whenever the pump is in its live branch (it has chosen ingest as the
\* source of the iteration: lock, read, write of lines 193-203) while the
\* player holds a decoder child, that decoder has been signalled to stop.
C21_StaleDecoderStopped ==
    (pc \in {"ing_lock", "ing_read", "ing_write"} /\ decoder # 0) =>
        decoder \in decSignalled

\* C22: once the outer loop has exited (the player is at the grace sleep of
\* the shutdown sequence), the player eventually returns.
C22_ShutdownTerminates ==
    (pc = "sleep") ~> (pc = "done")

\* C23: every pump-loop iteration that neither leaves the loop nor returns
\* an error has forwarded at least one byte: the step that ends an iteration
\* back at the loop head is a write that made the encoder stream longer.
C23_PumpProgress ==
    [][(pc \in PumpPcs /\ pc # "pump" /\ pc' = "pump") =>
          Len(Written') > Len(Written)]_vars

\* C23 amended: an iteration ends back at the loop head without a byte
\* forwarded only when it found no stream in ingest_stdout, and then
\* ingest_is_alive has been cleared since the iteration loaded it; as long
\* as ingest_is_alive is true a stream is there, so the empty iteration is
\* not repeated while the flag stays true.
C23_PumpProgressOrStaleFlag ==
    /\ [][(pc \in PumpPcs /\ pc # "pump" /\ pc' = "pump") =>
             \/ Len(Written') > Len(Written)
             \/ pc = "ing_lock" /\ ingest_stdout = "none" /\ ~ingest_is_alive]_vars
    /\ [](ingest_is_alive => ingest_stdout = "open")

\* C23 witness: an iteration that saw ingest_is_alive set is at the lock, and
\* the stream has been taken out of ingest_stdout
C23_Witness ==
    pc = "ing_lock" /\ ingest_stdout = "none" /\ live_on /\ ingLock = "free"

\* the type of the SSE and run_args state
ToolsTypeOK ==
    /\ sseHandler \in [Reqs -> Handlers \cup {"none"}]
    /\ sseWorker \in [Reqs -> Workers \cup {0}]
    /\ sseAt \in [Reqs -> {"none", "start", "blocked", "locked", "await_config",
                           "await_client", "done"}]
    /\ uuidsGuard \in Reqs \cup {0}
    /\ cliPc \in {"off", "migrate", "init", "update_global", "update_channel",
                  "user", "list", "dump_advanced", "dump_config",
                  "import_advanced", "import_config", "return", "done"}
    /\ args \in ArgSets
    /\ error_code \in {-1, 0, 1}
    /\ chanIdx \in 0..MaxChannels
    /\ cliResult \in {"none", "Ok", "Err0", "Err1", "panic"}

\* C24: the SSE handlers cannot block each other for ever on the uuids
\* lock. No event_stream request holds the mutex while it is suspended at
\* playout_config or new_client, and every request that has reached
\* data.uuids.lock() eventually holds the guard or has returned.
C24_NoIndefiniteBlocking ==
    /\ [](\A r \in Reqs :
            sseAt[r] \in {"await_config", "await_client"} => uuidsGuard # r)
    /\ \A r \in Reqs :
            (sseAt[r] \in {"start", "blocked"}) ~> (sseAt[r] \notin {"start", "blocked"})

\* C25: the result of run_args reflects failures. Ok(()) is returned only
\* when no action was performed, Err(0) only when no performed action
\* failed, and Err(1) whenever some performed action failed.
C25_ResultReflectsFailures ==
    /\ cliResult = "Ok" => ~anyPerformed
    /\ cliResult = "Err0" => ~anyFailed
    /\ (cliPc = "done" /\ cliResult # "panic" /\ anyFailed) => cliResult = "Err1"
====
